---------------------------- MODULE Spec2Model ----------------------------
(***************************************************************************)
(* Text Entry Throughput (tet): the frequency table, the symbol            *)
(* distribution, the minimum-string-distance matrix, the enumeration of    *)
(* optimal alignments and the channel model built on the stored alignment. *)
(*                                                                         *)
(* A run of the model is the data flow of the library: a Frequencies is    *)
(* built by record / retain / entry_char, Distribution::new snapshots it,  *)
(* OptimalAlignments::new aligns one (presented, transcribed) pair against *)
(* it (msd, then the recursive alignments, one step per statement), and    *)
(* ixy evaluates the channel model.                                        *)
(*                                                                         *)
(* f64 values are modelled as exact fractions <<num, den>> in lowest       *)
(* terms, with <<0, 0>> for NaN and <<1, 0>> / <<-1, 0>> for the           *)
(* infinities; rounding is not modelled.  log2 is not computed: the sum    *)
(* accumulated by hyx is kept as the set of its terms.                     *)
(***************************************************************************)
EXTENDS Integers, Sequences, FiniteSets, TLC

VARIABLES
    pc,             \* position in the data flow
    freq,           \* Frequencies.map
    distribution,   \* Distribution.map
    presented,      \* the presented string handed to new (Vec<char>)
    transcribed,    \* the transcribed string handed to new (Vec<char>)
    d,              \* the matrix returned by msd
    stack,          \* the active calls of alignments, innermost last
    slf,            \* the OptimalAlignments under construction / returned
    result          \* the value returned by ixy

vars == <<pc, freq, distribution, presented, transcribed, d, stack, slf, result>>

---------------------------------------------------------------------------
(* Bounds of the model                                                     *)

\* longest enumerated input string
MaxLen == 2

\* largest count a key of the Frequencies is driven to
MaxCount == 2

\* the symbols the enumerated corpus and input strings are drawn from
Alphabet == {"a", "b"}

---------------------------------------------------------------------------
(* f64                                                                     *)

Abs(v) == IF v < 0 THEN 0 - v ELSE v

Sign(v) == IF v < 0 THEN 0 - 1 ELSE IF v > 0 THEN 1 ELSE 0

RECURSIVE Gcd(_, _)
Gcd(a, b) == IF b = 0 THEN a ELSE Gcd(b, a % b)

\* num / den with the common factor g removed
Reduce(num, den, g) == <<num \div g, den \div g>>

\* the f64 num / den for integers num, den
Frac(num, den) ==
    IF den = 0 THEN <<Sign(num), 0>>
    ELSE Reduce(Sign(den) * num, Sign(den) * den, Gcd(Abs(num), Abs(den)))

NaN == <<0, 0>>

IsNaN(a) == a = NaN

IsFinite(a) == a[2] # 0

\* usize as f64
AsF64(v) == <<v, 1>>

FMul(a, b) == Frac(a[1] * b[1], a[2] * b[2])

FDiv(a, b) == Frac(a[1] * b[2], a[2] * b[1])

FAdd(a, b) ==
    IF IsNaN(a) \/ IsNaN(b) THEN NaN
    ELSE IF ~IsFinite(a) /\ ~IsFinite(b) THEN (IF a = b THEN a ELSE NaN)
    ELSE IF ~IsFinite(a) THEN a
    ELSE IF ~IsFinite(b) THEN b
    ELSE Frac(a[1] * b[2] + b[1] * a[2], a[2] * b[2])

FNeg(a) == <<0 - a[1], a[2]>>

FSub(a, b) == FAdd(a, FNeg(b))

\* Option<T>
None == <<"None">>

Some(v) == <<"Some", v>>

IsSome(o) == o[1] = "Some"

Unwrap(o) == o[2]

\* the outcome of a call that panicked
Panic == <<"Panic">>

\* the outcome of a call that returned v, where the call may panic
Ok(v) == <<"Ok", v>>

---------------------------------------------------------------------------
(* distribution.rs: Frequencies                                            *)

\* HashMap::new()
EmptyMap == [x \in {} |-> 0]

\* Frequencies::new
Frequencies_new == EmptyMap

\* HashMap::insert
MapInsert(m, k, v) == [x \in (DOMAIN m) \cup {k} |-> IF x = k THEN v ELSE m[x]]

\* Frequencies::record
record(m, c) ==
    IF c \in DOMAIN m THEN [m EXCEPT ![c] = m[c] + 1]
    ELSE MapInsert(m, c, 1)

\* Frequencies::retain, func given by the set of characters it accepts
retain(m, keep) == [x \in (DOMAIN m) \cap keep |-> m[x]]

\* Frequencies::entry_char
entry_char(m, c) ==
    IF ~(c \in DOMAIN m) THEN MapInsert(m, c, 0) ELSE m

\* values().sum::<u128>() over the keys given
RECURSIVE SumValues(_, _)
SumValues(m, keys) ==
    IF keys = {} THEN 0
    ELSE m[CHOOSE x \in keys : TRUE]
         + SumValues(m, keys \ {CHOOSE x \in keys : TRUE})

\* Frequencies::n, and the n of Distribution::new
Frequencies_n(m) == SumValues(m, DOMAIN m)

\* Distribution::new
Distribution_new(m) ==
    [k \in DOMAIN m |-> FDiv(AsF64(m[k]), AsF64(Frequencies_n(m)))]

\* Distribution::p
Distribution_p(dist, c) == IF c \in DOMAIN dist THEN Some(dist[c]) ELSE None

---------------------------------------------------------------------------
(* optimal_alignments.rs: Element, msd                                     *)

\* Element::Character(c)
Character(c) == <<"Character", c>>

\* Element::Null
Null == <<"Null">>

\* Element::is_null
is_null(e) == e = Null

\* the char held by an Element::Character
CharOf(e) == e[2]

\* r with its two results exchanged
r_Inverted(x, y) == IF x = y THEN 1 ELSE 0

\* fn r inside msd
r(x, y) == IF x = y THEN 0 ELSE 1

\* the matrix of msd after its first two loops: zeroes, then d[i][0] = i
\* and d[0][j] = j.  Rows and columns are indexed from 0, as in the code.
MsdInit(X, Y) ==
    [i \in 0..X |-> [j \in 0..Y |->
        IF j = 0 THEN i ELSE IF i = 0 THEN j ELSE 0]]

\* the array candidates of msd (presented[i - 1] of the code is P[i] here:
\* sequences are indexed from 1)
Candidates(dd, P, T, i, j) ==
    << dd[i - 1][j] + 1,
       dd[i][j - 1] + 1,
       dd[i - 1][j - 1] + r(P[i], T[j]) >>

\* candidates.sort(); candidates[0]
SortedFirst(c) == CHOOSE m \in {c[k] : k \in DOMAIN c} :
                      \A k \in DOMAIN c : m <= c[k]

\* the inner loop of msd: row i from column j on, to the last column
\* (j = transcribed.chars().count())
RECURSIVE MsdRow(_, _, _, _, _)
MsdRow(dd, P, T, i, j) ==
    IF j \notin DOMAIN dd[i] THEN dd
    ELSE MsdRow([dd EXCEPT ![i][j] = SortedFirst(Candidates(dd, P, T, i, j))],
                P, T, i, j + 1)

\* the outer loop of msd: rows i, i + 1, ... to the last row
\* (i = presented.chars().count())
RECURSIVE MsdRows(_, _, _, _)
MsdRows(dd, P, T, i) ==
    IF i \notin DOMAIN dd THEN dd
    ELSE MsdRows(MsdRow(dd, P, T, i, 1), P, T, i + 1)

\* OptimalAlignments::msd.  The entries are u128 and never exceed
\* max(X, Y), so no addition overflows.
msd(P, T) == MsdRows(MsdInit(Len(P), Len(T)), P, T, 1)

---------------------------------------------------------------------------
(* optimal_alignments.rs: alignments, one call frame per active call       *)

\* Vec::insert(0, e)
Insert0(v, e) == <<e>> \o v

\* a call alignments(presented, transcribed, d, x, y, p_aligned, t_aligned)
\* about to execute the statement named by at
Frame(x, y, p_aligned, t_aligned, at) ==
    [x |-> x, y |-> y, p_aligned |-> p_aligned, t_aligned |-> t_aligned,
     at |-> at]

\* if x == 0 && y == 0
IsBase(x, y) == x = 0 /\ y = 0

\* x > 0 && y > 0 && d[x][y] == d[x - 1][y - 1]
\*   && presented[x - 1] == transcribed[y - 1]
MatchGuard(dd, P, T, x, y) ==
    x > 0 /\ y > 0 /\ dd[x][y] = dd[x - 1][y - 1] /\ P[x] = T[y]

\* x > 0 && y > 0 && d[x][y] == d[x - 1][y - 1] + 1
SubstGuard(dd, x, y) ==
    x > 0 /\ y > 0 /\ dd[x][y] = dd[x - 1][y - 1] + 1

\* the up guard without its comparison of costs
UpGuard_AnyCost(dd, x, y) == x > 0

\* x > 0 && d[x][y] == d[x - 1][y] + 1
UpGuard(dd, x, y) == x > 0 /\ dd[x][y] = dd[x - 1][y] + 1

\* y > 0 && d[x][y] == d[x][y - 1] + 1
LeftGuard(dd, x, y) == y > 0 /\ dd[x][y] = dd[x][y - 1] + 1

\* the diagonal branches inserting the presented symbol into both tracks
DiagCall_PresentedTwice(P, T, f) ==
    Frame(f.x - 1, f.y - 1,
          Insert0(f.p_aligned, Character(P[f.x])),
          Insert0(f.t_aligned, Character(P[f.x])), "base")

\* the callee of the two diagonal branches
DiagCall(P, T, f) ==
    Frame(f.x - 1, f.y - 1,
          Insert0(f.p_aligned, Character(P[f.x])),
          Insert0(f.t_aligned, Character(T[f.y])), "base")

\* the up branch calling alignments with x instead of x - 1
UpCall_SameCell(P, T, f) ==
    Frame(f.x, f.y,
          Insert0(f.p_aligned, Character(P[f.x])),
          Insert0(f.t_aligned, Null), "base")

\* the up branch inserting Element::Null into both tracks
UpCall_BothNull(P, T, f) ==
    Frame(f.x - 1, f.y,
          Insert0(f.p_aligned, Null),
          Insert0(f.t_aligned, Null), "base")

\* the callee of the up branch
UpCall(P, T, f) ==
    Frame(f.x - 1, f.y,
          Insert0(f.p_aligned, Character(P[f.x])),
          Insert0(f.t_aligned, Null), "base")

\* the left branch without its p_aligned.insert(0, Element::Null)
LeftCall_NoNull(P, T, f) ==
    Frame(f.x, f.y - 1,
          f.p_aligned,
          Insert0(f.t_aligned, Character(T[f.y])), "base")

\* the callee of the left branch
LeftCall(P, T, f) ==
    Frame(f.x, f.y - 1,
          Insert0(f.p_aligned, Null),
          Insert0(f.t_aligned, Character(T[f.y])), "base")

\* the statements with the left branch placed before the up branch
After_LeftBeforeUp(at) ==
    CASE at = "base"  -> "match"
      [] at = "match" -> "subst"
      [] at = "subst" -> "left"
      [] at = "left"  -> "up"
      [] at = "up"    -> "return"

\* the statement after the one at label at
After(at) ==
    CASE at = "base"  -> "match"
      [] at = "match" -> "subst"
      [] at = "subst" -> "up"
      [] at = "up"    -> "left"
      [] at = "left"  -> "return"

Top(st) == st[Len(st)]

Pop(st) == SubSeq(st, 1, Len(st) - 1)

\* the caller moves past the statement it is at
Advance(st) == [st EXCEPT ![Len(st)].at = After(st[Len(st)].at)]

\* the base case: return when x == 0 && y == 0, else go on
BaseStack(st) ==
    IF IsBase(Top(st).x, Top(st).y) THEN Pop(st) ELSE Advance(st)

\* the base case keeping the first completed path instead of the last
BaseSelf_FirstWins(st, s) ==
    IF IsBase(Top(st).x, Top(st).y) /\ s.presented = <<>>
    THEN [s EXCEPT !.presented = Top(st).p_aligned,
                   !.transcribed = Top(st).t_aligned]
    ELSE s

\* the base case: self.presented = p_aligned; self.transcribed = t_aligned
BaseSelf(st, s) ==
    IF IsBase(Top(st).x, Top(st).y)
    THEN [s EXCEPT !.presented = Top(st).p_aligned,
                   !.transcribed = Top(st).t_aligned]
    ELSE s

\* the diagonal branch of equal symbols: when its guard holds the callee
\* is pushed, and the caller resumes after the branch once it returned
MatchStack(dd, P, T, st) ==
    IF MatchGuard(dd, P, T, Top(st).x, Top(st).y)
    THEN Append(Advance(st), DiagCall(P, T, Top(st)))
    ELSE Advance(st)

\* the diagonal branch of a substitution
SubstStack(dd, P, T, st) ==
    IF SubstGuard(dd, Top(st).x, Top(st).y)
    THEN Append(Advance(st), DiagCall(P, T, Top(st)))
    ELSE Advance(st)

\* the up branch
UpStack(dd, P, T, st) ==
    IF UpGuard(dd, Top(st).x, Top(st).y)
    THEN Append(Advance(st), UpCall(P, T, Top(st)))
    ELSE Advance(st)

\* the left branch
LeftStack(dd, P, T, st) ==
    IF LeftGuard(dd, Top(st).x, Top(st).y)
    THEN Append(Advance(st), LeftCall(P, T, Top(st)))
    ELSE Advance(st)

\* the final return
ReturnStack(st) == Pop(st)

\* the active calls after the innermost call executed its statement
StackAfter(dd, P, T, st) ==
    CASE Top(st).at = "base"   -> BaseStack(st)
      [] Top(st).at = "match"  -> MatchStack(dd, P, T, st)
      [] Top(st).at = "subst"  -> SubstStack(dd, P, T, st)
      [] Top(st).at = "up"     -> UpStack(dd, P, T, st)
      [] Top(st).at = "left"   -> LeftStack(dd, P, T, st)
      [] Top(st).at = "return" -> ReturnStack(st)

\* self after the innermost call executed its statement
SelfAfter(st, s) == IF Top(st).at = "base" THEN BaseSelf(st, s) ELSE s

\* OptimalAlignments::alignments run to its return: self once the calls
\* st have all returned
RECURSIVE alignments(_, _, _, _, _)
alignments(dd, P, T, st, s) ==
    IF st = <<>> THEN s
    ELSE alignments(dd, P, T, StackAfter(dd, P, T, st), SelfAfter(st, s))

---------------------------------------------------------------------------
(* optimal_alignments.rs: counts and the four estimators                   *)

\* the value of slf before the enumeration (p_null: 0.0, len: 0)
SelfInit(dist) ==
    [distribution |-> dist, presented |-> <<>>, transcribed |-> <<>>,
     p_null |-> AsF64(0), len |-> 0]

\* the cells of presented.iter().zip(transcribed.iter())
Zip(s) ==
    IF Len(s.presented) <= Len(s.transcribed)
    THEN DOMAIN s.presented ELSE DOMAIN s.transcribed

\* the closure |p, _| p == &Element::Null of p_null
PresentedNull(pe, te) == pe = Null

\* the closure |p, _| !p.is_null() of the three denominators
PresentedNotNull(pe, te) == ~is_null(pe)

\* the closure of insertion_probability
InsertionCell(pe, te) == is_null(pe) /\ ~is_null(te)

\* the closure of omission_probability
OmissionCell(pe, te) == ~is_null(pe) /\ is_null(te)

\* the closure of substitution_probability
SubstitutionCell(pe, te) == ~is_null(pe) /\ ~is_null(te) /\ pe # te

\* the closure of probability_of_correct_entries without its p == e
CorrectCell_AnyPair(pe, te) == ~is_null(pe) /\ ~is_null(te)

\* the closure of probability_of_correct_entries
CorrectCell(pe, te) == ~is_null(pe) /\ ~is_null(te) /\ pe = te

\* the call f(p, t) of n, the closure f given by its name
Call(f, pe, te) ==
    CASE f = "PresentedNull"    -> PresentedNull(pe, te)
      [] f = "PresentedNotNull" -> PresentedNotNull(pe, te)
      [] f = "InsertionCell"    -> InsertionCell(pe, te)
      [] f = "OmissionCell"     -> OmissionCell(pe, te)
      [] f = "SubstitutionCell" -> SubstitutionCell(pe, te)
      [] f = "CorrectCell"      -> CorrectCell(pe, te)

\* OptimalAlignments::n
n(s, f) ==
    Cardinality({k \in Zip(s) : Call(f, s.presented[k], s.transcribed[k])})

\* OptimalAlignments::p_null
p_null(s) == FDiv(AsF64(n(s, "PresentedNull")), AsF64(s.len))

\* OptimalAlignments::insertion_probability
insertion_probability(s) == FDiv(AsF64(n(s, "InsertionCell")), AsF64(s.len))

\* the factor (1f64 - self.insertion_probability()) left out
NotInserted_Dropped(s) == AsF64(1)

\* the factor (1f64 - self.insertion_probability())
NotInserted(s) == FSub(AsF64(1), insertion_probability(s))

\* OptimalAlignments::omission_probability
omission_probability(s) ==
    FMul(FDiv(AsF64(n(s, "OmissionCell")), AsF64(n(s, "PresentedNotNull"))),
         NotInserted(s))

\* OptimalAlignments::substitution_probability
substitution_probability(s) ==
    FMul(FDiv(AsF64(n(s, "SubstitutionCell")), AsF64(n(s, "PresentedNotNull"))),
         NotInserted(s))

\* OptimalAlignments::probability_of_correct_entries
probability_of_correct_entries(s) ==
    FMul(FDiv(AsF64(n(s, "CorrectCell")), AsF64(n(s, "PresentedNotNull"))),
         NotInserted(s))

---------------------------------------------------------------------------
(* optimal_alignments.rs: the channel model.  s is the OptimalAlignments,  *)
(* dist the map of its field distribution, param the map of the argument   *)
(* distribution of hyx and ixy.                                            *)

\* OptimalAlignments::p
p(s, dist, c) ==
    IF c = Null THEN Some(s.p_null) ELSE Distribution_p(dist, CharOf(c))

\* Option::map(|v| v * factor)
MapMul(o, factor) == IF IsSome(o) THEN Some(FMul(Unwrap(o), factor)) ELSE None

\* OptimalAlignments::p_dash
p_dash(s, dist, c) ==
    IF c = Null THEN Some(s.p_null)
    ELSE MapMul(p(s, dist, c), FSub(AsF64(1), s.p_null))

\* self.distribution.map.keys().count()
KeyCount(dist) == Cardinality(DOMAIN dist)

\* OptimalAlignments::p_i_j: an f64, or Panic where the code reaches
\* unreachable!() or the usize subtraction count() - 1 underflows
p_i_j(s, dist, i, j) ==
    CASE is_null(i) /\ ~is_null(j) ->
            FDiv(insertion_probability(s), AsF64(KeyCount(dist)))
      [] ~is_null(i) /\ is_null(j) ->
            omission_probability(s)
      [] ~is_null(i) /\ ~is_null(j) ->
            IF i # j
            THEN IF KeyCount(dist) = 0 THEN Panic
                 ELSE FDiv(substitution_probability(s),
                           AsF64(KeyCount(dist) - 1))
            ELSE probability_of_correct_entries(s)
      [] OTHER -> Panic

\* p_dash_i.map(|p_dash_i| p_dash_i * t), t the outcome of p_i_j, which
\* is called only when p_dash_i is Some
MapPij(p_dash_i, t) ==
    IF ~IsSome(p_dash_i) THEN None
    ELSE IF t = Panic THEN Panic
    ELSE Some(FMul(Unwrap(p_dash_i), t))

\* OptimalAlignments::pij: Option<f64>, or Panic
pij(s, dist, i, j) == MapPij(p_dash(s, dist, i), p_i_j(s, dist, i, j))

\* the elements p_j_i sums pij(i', j) over
DenominatorElements(dist) == {Character(c) : c \in DOMAIN dist}

\* the closure folded by p_j_i
FoldStep(acc, t) ==
    IF ~IsSome(acc) \/ ~IsSome(t) THEN None
    ELSE Some(FAdd(Unwrap(acc), Unwrap(t)))

\* one step of the fold, t the outcome of pij
FoldInto(acc, t) == IF t = Panic THEN Panic ELSE FoldStep(acc, t)

\* the element a HashMap iteration over es yields next.  The order is
\* unspecified; exact sums do not depend on it.
NextOf(es) == CHOOSE x \in es : TRUE

\* the fold of p_j_i over the elements es, from the accumulator acc;
\* Panic as soon as a call of pij panics
RECURSIVE FoldPij(_, _, _, _, _)
FoldPij(s, dist, es, j, acc) ==
    IF es = {} \/ acc = Panic THEN acc
    ELSE FoldPij(s, dist, es \ {NextOf(es)}, j,
                 FoldInto(acc, pij(s, dist, NextOf(es), j)))

\* the denominator of p_j_i
Denominator(s, dist, j) ==
    FoldPij(s, dist, DenominatorElements(dist), j, Some(AsF64(0)))

\* lib.rs: the elements p_j_i sums pij(i', j) over, .chain(extend) included
DenominatorElements_lib(dist) ==
    {Character(c) : c \in DOMAIN dist} \cup {Null}

\* lib.rs: the denominator of p_j_i
Denominator_lib(s, dist, j) ==
    FoldPij(s, dist, DenominatorElements_lib(dist), j, Some(AsF64(0)))

\* Some(num? / den?), den computed only when num is Some
Quotient(num, den) ==
    IF ~IsSome(num) THEN num
    ELSE IF ~IsSome(den) THEN den
    ELSE Some(FDiv(Unwrap(num), Unwrap(den)))

\* OptimalAlignments::p_j_i: Option<f64>, or Panic
p_j_i(s, dist, i, j) == Quotient(pij(s, dist, i, j), Denominator(s, dist, j))

\* the values i of the outer loop of hyx
HyxIs(param) == {Character(c) : c \in DOMAIN param}

\* the values j of the inner loop of hyx
HyxJs(param) == {Character(c) : c \in DOMAIN param} \cup {Null}

\* the pairs (i, j) for which the loop body of hyx is not skipped
HyxPairs(param) ==
    {ij \in HyxIs(param) \X HyxJs(param) : ~(is_null(ij[1]) /\ is_null(ij[2]))}

\* one iteration of hyx at (i, j): the term added to acc, kept as the
\* factors pij and p_j_i of pij * log2(p_j_i); None or Panic when the
\* iteration leaves hyx
TermOf(ij, a, b) ==
    IF ~IsSome(a) THEN a
    ELSE IF ~IsSome(b) THEN b
    ELSE Some([i |-> ij[1], j |-> ij[2],
               pij |-> Unwrap(a), p_j_i |-> Unwrap(b)])

HyxTerm(s, dist, ij) ==
    TermOf(ij, pij(s, dist, ij[1], ij[2]), p_j_i(s, dist, ij[1], ij[2]))

\* acc += term, or the outcome that left hyx
Accumulate(acc, t) ==
    IF ~IsSome(acc) THEN acc
    ELSE IF ~IsSome(t) THEN t
    ELSE Some(Unwrap(acc) \cup {Unwrap(t)})

\* the loops of hyx over the pairs left, acc the terms accumulated so far
RECURSIVE HyxLoop(_, _, _, _)
HyxLoop(s, dist, left, acc) ==
    IF left = {} \/ ~IsSome(acc) THEN acc
    ELSE HyxLoop(s, dist, left \ {NextOf(left)},
                 Accumulate(acc, HyxTerm(s, dist, NextOf(left))))

\* OptimalAlignments::hyx(distribution): Some(the terms whose sum is
\* negated), None, or Panic
hyx(s, dist, param) == HyxLoop(s, dist, HyxPairs(param), Some({}))

\* Distribution::hx, kept as the probabilities whose pi * log2(pi) it sums
hx(dist) == [k \in DOMAIN dist |-> dist[k]]

\* hyx.map(|hyx| distribution.hx() - hyx), the difference kept as its
\* two operands
MapIxy(h, e) == IF IsSome(h) THEN Some([hx |-> e, hyx |-> Unwrap(h)]) ELSE h

\* OptimalAlignments::ixy(distribution)
ixy(s, dist, param) == MapIxy(hyx(s, dist, param), hx(param))

---------------------------------------------------------------------------
(* optimal_alignments.rs: new                                              *)

\* slf.len = slf.presented.len(), then slf.p_null = slf.p_null()
WithLen(s) == [s EXCEPT !.len = Len(s.presented)]

WithPNull(s) == [s EXCEPT !.p_null = p_null(s)]

Finished(s) == WithPNull(WithLen(s))

\* the call of alignments made by new
FirstCall(P, T) == << Frame(Len(P), Len(T), <<>>, <<>>, "base") >>

\* the tail of new: the length check, len and p_null; Panic for panic!
CheckLengths(s) ==
    IF Len(s.presented) # Len(s.transcribed) THEN Panic ELSE Ok(Finished(s))

\* OptimalAlignments::new(presented, transcribed, distribution): the value
\* returned, or Panic
new(P, T, dist) ==
    CheckLengths(alignments(msd(P, T), P, T, FirstCall(P, T), SelfInit(dist)))

---------------------------------------------------------------------------
(* Inputs                                                                  *)

\* the strings of at most MaxLen symbols of Alphabet
Strings == UNION {[1..k -> Alphabet] : k \in 0..MaxLen}

\* the strings of msd_test, alignment_test and sample_alignments
Abcd == <<"a", "b", "c", "d">>

Acbd == <<"a", "c", "b", "d">>

Quickly == <<"q", "u", "i", "c", "k", "l", "y">>

Qucehkly == <<"q", "u", "c", "e", "h", "k", "l", "y">>

SamplePresented ==
    <<"m", "y", " ", "w", "a", "t", "c", "h", " ", "f", "e", "l", "l", " ",
      "i", "n", " ", "t", "h", "e", " ", "w", "a", "t", "e", "r", "p", "r",
      "e", "v", "a", "i", "l", "i", "n", "g", " ", "w", "i", "n", "d", " ",
      "f", "r", "o", "m", " ", "t", "h", "e", " ", "e", "a", "s", "t">>

SampleTranscribed ==
    <<"m", "y", " ", "w", "a", "c", "c", "h", " ", "f", "e", "l", "l", " ",
      "i", "n", " ", "w", "a", "t", "e", "r", "p", "r", "e", "v", "i", "l",
      "i", "n", "g", " ", "w", "i", "n", "d", " ", "o", "n", " ", "t", "h",
      "e", " ", "e", "a", "s", "t">>

TestPairs ==
    { <<Abcd, Acbd>>, <<Quickly, Qucehkly>>,
      <<SamplePresented, SampleTranscribed>> }

\* the (presented, transcribed) pairs new is called with
Inputs == (Strings \X Strings) \cup TestPairs

\* result before ixy is called
NotCalled == <<"NotCalled">>

---------------------------------------------------------------------------
(* The state machine                                                       *)

Init ==
    /\ pc = "freq"
    /\ freq = Frequencies_new
    /\ distribution = EmptyMap
    /\ presented = <<>>
    /\ transcribed = <<>>
    /\ d = <<>>
    /\ stack = <<>>
    /\ slf = SelfInit(EmptyMap)
    /\ result = NotCalled

\* Frequencies::record(c); the count is driven no further than MaxCount
Record(c) ==
    /\ pc = "freq"
    /\ c \in DOMAIN freq => freq[c] < MaxCount
    /\ freq' = record(freq, c)
    /\ UNCHANGED <<pc, distribution, presented, transcribed, d, stack, slf,
                   result>>

\* Frequencies::retain(func)
Retain(keep) ==
    /\ pc = "freq"
    /\ freq' = retain(freq, keep)
    /\ UNCHANGED <<pc, distribution, presented, transcribed, d, stack, slf,
                   result>>

\* Frequencies::entry_char(c)
EntryChar(c) ==
    /\ pc = "freq"
    /\ freq' = entry_char(freq, c)
    /\ UNCHANGED <<pc, distribution, presented, transcribed, d, stack, slf,
                   result>>

\* Distribution::new(frequencies)
BuildDistribution ==
    /\ pc = "freq"
    /\ distribution' = Distribution_new(freq)
    /\ pc' = "dist"
    /\ UNCHANGED <<freq, presented, transcribed, d, stack, slf, result>>

\* OptimalAlignments::new up to its call of alignments at (x, y)
NewStart(P, T) ==
    /\ pc = "dist"
    /\ presented' = P
    /\ transcribed' = T
    /\ slf' = SelfInit(distribution)
    /\ d' = msd(P, T)
    /\ stack' = FirstCall(P, T)
    /\ pc' = "align"
    /\ UNCHANGED <<freq, distribution, result>>

\* alignments: the base case, which stores the path and returns
AlignBase ==
    /\ pc = "align" /\ stack # <<>> /\ Top(stack).at = "base"
    /\ slf' = BaseSelf(stack, slf)
    /\ stack' = BaseStack(stack)
    /\ UNCHANGED <<pc, freq, distribution, presented, transcribed, d, result>>

\* alignments: the diagonal branch of equal symbols
AlignMatch ==
    /\ pc = "align" /\ stack # <<>> /\ Top(stack).at = "match"
    /\ stack' = MatchStack(d, presented, transcribed, stack)
    /\ UNCHANGED <<pc, freq, distribution, presented, transcribed, d, slf,
                   result>>

\* alignments: the diagonal branch of a substitution
AlignSubst ==
    /\ pc = "align" /\ stack # <<>> /\ Top(stack).at = "subst"
    /\ stack' = SubstStack(d, presented, transcribed, stack)
    /\ UNCHANGED <<pc, freq, distribution, presented, transcribed, d, slf,
                   result>>

\* alignments: the up branch
AlignUp ==
    /\ pc = "align" /\ stack # <<>> /\ Top(stack).at = "up"
    /\ stack' = UpStack(d, presented, transcribed, stack)
    /\ UNCHANGED <<pc, freq, distribution, presented, transcribed, d, slf,
                   result>>

\* alignments: the left branch
AlignLeft ==
    /\ pc = "align" /\ stack # <<>> /\ Top(stack).at = "left"
    /\ stack' = LeftStack(d, presented, transcribed, stack)
    /\ UNCHANGED <<pc, freq, distribution, presented, transcribed, d, slf,
                   result>>

\* alignments: the final return
AlignReturn ==
    /\ pc = "align" /\ stack # <<>> /\ Top(stack).at = "return"
    /\ stack' = ReturnStack(stack)
    /\ UNCHANGED <<pc, freq, distribution, presented, transcribed, d, slf,
                   result>>

\* OptimalAlignments::new once alignments has returned
NewFinish ==
    /\ pc = "align" /\ stack = <<>>
    /\ IF CheckLengths(slf) = Panic
       THEN /\ pc' = "panic"
            /\ slf' = slf
       ELSE /\ pc' = "done"
            /\ slf' = Unwrap(CheckLengths(slf))
    /\ UNCHANGED <<freq, distribution, presented, transcribed, d, stack, result>>

\* ixy(&distribution) on the value new returned, as ixy_test calls it
Ixy ==
    /\ pc = "done"
    /\ result' = ixy(slf, slf.distribution, distribution)
    /\ pc' = "ixy"
    /\ UNCHANGED <<freq, distribution, presented, transcribed, d, stack, slf>>

Next ==
    \/ \E c \in Alphabet : Record(c)
    \/ \E keep \in SUBSET Alphabet : Retain(keep)
    \/ \E c \in Alphabet : EntryChar(c)
    \/ BuildDistribution
    \/ \E in \in Inputs : NewStart(in[1], in[2])
    \/ AlignBase
    \/ AlignMatch
    \/ AlignSubst
    \/ AlignUp
    \/ AlignLeft
    \/ AlignReturn
    \/ NewFinish
    \/ Ixy

Spec == Init /\ [][Next]_vars

---------------------------------------------------------------------------
(* Properties                                                              *)

\* new has returned
Returned == pc \in {"done", "ixy"}

\* msd has just returned to new
MsdReturned == pc = "align" /\ Len(stack) = 1 /\ Top(stack).at = "base"

Max(a, b) == IF a >= b THEN a ELSE b

Prefix(w, k) == SubSeq(w, 1, k)

\* the strings one deletion, one substitution or one insertion of a symbol
\* of A away from w
Deletions(w) ==
    {SubSeq(w, 1, k - 1) \o SubSeq(w, k + 1, Len(w)) : k \in 1..Len(w)}

Substitutions(w, A) ==
    {[w EXCEPT ![k] = c] : k \in 1..Len(w), c \in A}

Insertions(w, A) ==
    {SubSeq(w, 1, k) \o <<c>> \o SubSeq(w, k + 1, Len(w)) :
        k \in 0..Len(w), c \in A}

Edits(w, A) == Deletions(w) \cup Substitutions(w, A) \cup Insertions(w, A)

\* the least number of single-symbol edits, on top of the k that produced
\* the set reached, after which target is reached
RECURSIVE EditSteps(_, _, _, _)
EditSteps(reached, target, A, k) ==
    IF target \in reached THEN k
    ELSE EditSteps(reached \cup UNION {Edits(w, A) : w \in reached},
                   target, A, k + 1)

\* the Levenshtein distance: the minimum number of single-symbol
\* insertions, deletions and substitutions turning w into target
Levenshtein(w, target) == EditSteps({w}, target, Alphabet, 0)

\* the matrix msd_test expects for "abcd" / "acbd", rows 0..4
MsdTestAnswer ==
    << <<0, 1, 2, 3, 4>>,
       <<1, 0, 1, 2, 3>>,
       <<2, 1, 1, 1, 2>>,
       <<3, 2, 1, 2, 2>>,
       <<4, 3, 2, 2, 2>> >>

\* C1: the matrix D returned by msd(P, T) has rows 0..X and columns 0..Y,
\* D[i][0] = i, D[0][j] = j, and D[i][j] is the Levenshtein distance
\* between the first i symbols of P and the first j symbols of T (checked
\* against the minimum number of edits for every enumerated pair); for
\* "abcd" / "acbd" it is the matrix of msd_test and for "quickly" /
\* "qucehkly" D[7][8] = 3.
C1_MsdIsLevenshtein ==
    MsdReturned =>
        /\ DOMAIN d = 0..Len(presented)
        /\ \A i \in 0..Len(presented) :
              /\ DOMAIN d[i] = 0..Len(transcribed)
              /\ d[i][0] = i
        /\ \A j \in 0..Len(transcribed) : d[0][j] = j
        /\ (presented \in Strings /\ transcribed \in Strings) =>
              \A i \in 0..Len(presented), j \in 0..Len(transcribed) :
                 d[i][j] = Levenshtein(Prefix(presented, i),
                                       Prefix(transcribed, j))
        /\ (presented = Abcd /\ transcribed = Acbd) =>
              \A i \in 0..4, j \in 0..4 : d[i][j] = MsdTestAnswer[i + 1][j + 1]
        /\ (presented = Quickly /\ transcribed = Qucehkly) => d[7][8] = 3

\* msd has returned a matrix whose corner needs edits of two symbols
C1_Witness ==
    /\ MsdReturned
    /\ presented = <<"a", "b">> /\ transcribed = <<"b", "a">>
    /\ d[2][2] = 2

\* C2: once new has finished the enumeration the two stored tracks have
\* equal length, the panic of the length check is not reached, and the
\* length, stored in len, is at least max(|presented|, |transcribed|).
C2_TracksEqualLength ==
    /\ pc # "panic"
    /\ (pc = "align" /\ stack = <<>>) =>
          Len(slf.presented) = Len(slf.transcribed)
    /\ Returned =>
          /\ Len(slf.presented) = Len(slf.transcribed)
          /\ slf.len = Len(slf.presented)
          /\ slf.len >= Max(Len(presented), Len(transcribed))

\* new has returned an alignment longer than both of its inputs
C2_Witness ==
    /\ pc = "done"
    /\ presented # <<>> /\ transcribed # <<>>
    /\ slf.len > Max(Len(presented), Len(transcribed))

\* the tracks alignment_test expects
AlignmentTestPresented ==
    << Character("q"), Character("u"), Character("i"), Character("c"),
       Null, Null, Character("k"), Character("l"), Character("y") >>

AlignmentTestTranscribed ==
    << Character("q"), Character("u"), Null, Character("c"),
       Character("e"), Character("h"), Character("k"), Character("l"),
       Character("y") >>

\* C3: aligning "quickly" with "qucehkly" leaves the presented track
\* q,u,i,c,Gap,Gap,k,l,y, the transcribed track q,u,Gap,c,e,h,k,l,y and
\* len = 9.
C3_QuicklyAlignment ==
    (Returned /\ presented = Quickly /\ transcribed = Qucehkly) =>
        /\ slf.presented = AlignmentTestPresented
        /\ slf.transcribed = AlignmentTestTranscribed
        /\ slf.len = 9

\* new has returned for "quickly" / "qucehkly"
C3_Witness ==
    pc = "done" /\ presented = Quickly /\ transcribed = Qucehkly

\* a symbol of the presented or of the transcribed string is no key of
\* the distribution
Uncovered ==
    \/ \E k \in DOMAIN presented : presented[k] \notin DOMAIN distribution
    \/ \E k \in DOMAIN transcribed : transcribed[k] \notin DOMAIN distribution

\* C4: when the transcribed (or presented) string contains a symbol that
\* is no key of the distribution, ixy and hyx return None: never Some(value)
\* and never a panic.
C4_UncoveredSymbolIsNone ==
    (pc = "ixy" /\ Uncovered) =>
        /\ result = None
        /\ hyx(slf, slf.distribution, distribution) = None

\* C5: the value new returns for "quickly" / "qucehkly" equals, field by
\* field, the value alignment_test expects: the two 9-cell tracks, len = 9
\* and p_null = 0.0.
C5_AlignmentTestValue ==
    (pc = "done" /\ presented = Quickly /\ transcribed = Qucehkly) =>
        slf = [distribution |-> distribution,
               presented |-> AlignmentTestPresented,
               transcribed |-> AlignmentTestTranscribed,
               p_null |-> AsF64(0),
               len |-> 9]

\* C6: for the pair of sample_alignments (55 and 48 symbols) the stored
\* alignment has no insertion cell, so insertion_probability = 0, and
\* omission_probability = 7/55, substitution_probability = 2/55 and
\* probability_of_correct_entries = 46/55.
C6_SampleProbabilities ==
    (Returned /\ presented = SamplePresented
              /\ transcribed = SampleTranscribed) =>
        /\ Len(presented) = 55 /\ Len(transcribed) = 48
        /\ n(slf, "InsertionCell") = 0
        /\ insertion_probability(slf) = AsF64(0)
        /\ omission_probability(slf) = Frac(7, 55)
        /\ substitution_probability(slf) = Frac(2, 55)
        /\ probability_of_correct_entries(slf) = Frac(46, 55)

\* new has returned for the pair of sample_alignments
C6_Witness ==
    /\ pc = "done"
    /\ presented = SamplePresented /\ transcribed = SampleTranscribed
    /\ n(slf, "OmissionCell") = 7

\* insertion + omission + substitution + correct, as exact fractions
SumOfEstimators(s) ==
    FAdd(FAdd(FAdd(insertion_probability(s), omission_probability(s)),
              substitution_probability(s)),
         probability_of_correct_entries(s))

\* C7 as stated: for at least one pair with non-empty presented the four
\* estimators computed from the returned alignment do not sum to 1.
C7_SomePairOffOne ==
    \E in \in Strings \X Strings :
        /\ in[1] # <<>>
        /\ new(in[1], in[2], distribution) # Panic
        /\ SumOfEstimators(Unwrap(new(in[1], in[2], distribution))) # AsF64(1)

\* C7 as amended: for every pair with non-empty presented the four
\* estimators computed from the returned alignment sum to exactly 1.
C7_EstimatorsSumToOne ==
    (Returned /\ presented # <<>>) => SumOfEstimators(slf) = AsF64(1)

\* new has returned an alignment with an insertion cell and an omission
\* cell: insertion is normalised over len, the other three over the
\* smaller count of cells whose presented side is a symbol
C7_Witness ==
    /\ pc = "done"
    /\ presented # <<>>
    /\ n(slf, "InsertionCell") > 0
    /\ n(slf, "OmissionCell") > 0
    /\ n(slf, "PresentedNotNull") < slf.len

\* C8: every key present in the Frequencies map has a count of at least 1.
C8_CountsAtLeastOne == \A c \in DOMAIN freq : freq[c] >= 1

\* C9: no cell of the stored alignment holds Element::Null in both the
\* presented and the transcribed track.
C9_NoDoubleGap ==
    \A k \in Zip(slf) :
        ~(slf.presented[k] = Null /\ slf.transcribed[k] = Null)

\* new has returned an alignment with a gap in each track
C9_Witness ==
    /\ pc = "done"
    /\ \E k \in DOMAIN slf.presented : slf.presented[k] = Null
    /\ \E k \in DOMAIN slf.transcribed : slf.transcribed[k] = Null

\* C10: for every fixed symbol j the denominator of p_j(i) computed by
\* p_j_i is the sum of p(i', j) over every symbol i' of the distribution
\* plus the gap element i' = Gap.
C10_DenominatorIncludesGap ==
    Returned =>
        \A c \in DOMAIN distribution :
            Denominator(slf, slf.distribution, Character(c))
                = Denominator_lib(slf, slf.distribution, Character(c))

\* the pairs (i, j) of ({symbols} \cup {Gap}) \X ({symbols} \cup {Gap})
\* other than (Gap, Gap)
AllPairsButGapGap(param) ==
    (HyxJs(param) \X HyxJs(param)) \ {<<Null, Null>>}

\* the pairs (i, j) of the terms a returned hyx accumulated
TermPairs(terms) == {<<t.i, t.j>> : t \in terms}

\* C11: when hyx returns Some, it has accumulated one term
\* p(i,j) * log2(p_j(i)) for every pair (i, j) of
\* ({symbols} \cup {Gap}) \X ({symbols} \cup {Gap}) except (Gap, Gap); in
\* particular every pair (Gap, symbol) has a term.
C11_HyxCoversGapRows ==
    (pc = "ixy" /\ IsSome(result)) =>
        /\ TermPairs(Unwrap(result).hyx) = AllPairsButGapGap(distribution)
        /\ \A c \in DOMAIN distribution :
              <<Null, Character(c)>> \in TermPairs(Unwrap(result).hyx)

\* C12: no symbol of a Distribution built by Distribution::new is stored
\* with probability 0, so the number of keys k that p_i_j divides by is the
\* number of distinct symbols with nonzero probability.
C12_NoZeroProbabilityStored ==
    pc # "freq" =>
        /\ \A c \in DOMAIN distribution : distribution[c] # AsF64(0)
        /\ KeyCount(distribution)
              = Cardinality({c \in DOMAIN distribution :
                                 distribution[c] # AsF64(0)})

\* the number of nested recursive calls of alignments active below the
\* call made by new
Depth == Len(stack) - 1

\* C13 as stated: during the enumeration the recursion depth never
\* exceeds max(|presented|, |transcribed|).
C13_DepthWithinLongerString ==
    (pc = "align" /\ stack # <<>>) =>
        Depth <= Max(Len(presented), Len(transcribed))

\* C13 as amended: during the enumeration the recursion depth never
\* exceeds |presented| + |transcribed|.
C13_DepthWithinSumOfLengths ==
    (pc = "align" /\ stack # <<>>) =>
        Depth <= Len(presented) + Len(transcribed)

\* the enumeration is deeper than the longer string is long, on a path
\* that holds a gap in each track
C13_Witness ==
    /\ pc = "align" /\ stack # <<>>
    /\ presented # <<>> /\ transcribed # <<>>
    /\ Depth > Max(Len(presented), Len(transcribed))
    /\ IsBase(Top(stack).x, Top(stack).y)

\* some incoming edge of cell (x, y) is cost-optimal
SomeGuard(x, y) ==
    \/ MatchGuard(d, presented, transcribed, x, y)
    \/ SubstGuard(d, x, y)
    \/ UpGuard(d, x, y)
    \/ LeftGuard(d, x, y)

\* the single backtrace from the cell of frame f: the left edge when it is
\* cost-optimal, otherwise the up edge, otherwise the diagonal edge
RECURSIVE Backtrace(_)
Backtrace(f) ==
    IF IsBase(f.x, f.y) THEN f
    ELSE IF LeftGuard(d, f.x, f.y)
         THEN Backtrace(LeftCall(presented, transcribed, f))
    ELSE IF UpGuard(d, f.x, f.y)
         THEN Backtrace(UpCall(presented, transcribed, f))
    ELSE IF MatchGuard(d, presented, transcribed, f.x, f.y)
            \/ SubstGuard(d, f.x, f.y)
         THEN Backtrace(DiagCall(presented, transcribed, f))
    ELSE f

\* the call stack[k + 1] was made by stack[k] from the branch before the
\* statement stack[k] is at, along an edge that is cost-optimal
CalledInOrder(k) ==
    CASE stack[k].at = "subst" ->
             /\ MatchGuard(d, presented, transcribed, stack[k].x, stack[k].y)
             /\ stack[k + 1].x = stack[k].x - 1
             /\ stack[k + 1].y = stack[k].y - 1
      [] stack[k].at = "up" ->
             /\ SubstGuard(d, stack[k].x, stack[k].y)
             /\ stack[k + 1].x = stack[k].x - 1
             /\ stack[k + 1].y = stack[k].y - 1
      [] stack[k].at = "left" ->
             /\ UpGuard(d, stack[k].x, stack[k].y)
             /\ stack[k + 1].x = stack[k].x - 1
             /\ stack[k + 1].y = stack[k].y
      [] stack[k].at = "return" ->
             /\ LeftGuard(d, stack[k].x, stack[k].y)
             /\ stack[k + 1].x = stack[k].x
             /\ stack[k + 1].y = stack[k].y - 1
      [] OTHER -> FALSE

\* the innermost call is at a branch whose edge is cost-optimal
AtOptimalEdge ==
    /\ pc = "align" /\ stack # <<>>
    /\ \/ Top(stack).at = "match"
          /\ MatchGuard(d, presented, transcribed, Top(stack).x, Top(stack).y)
       \/ Top(stack).at = "subst" /\ SubstGuard(d, Top(stack).x, Top(stack).y)
       \/ Top(stack).at = "up" /\ UpGuard(d, Top(stack).x, Top(stack).y)
       \/ Top(stack).at = "left" /\ LeftGuard(d, Top(stack).x, Top(stack).y)

\* the innermost call is the base case at (0, 0)
AtCompletedPath ==
    /\ pc = "align" /\ stack # <<>>
    /\ Top(stack).at = "base" /\ IsBase(Top(stack).x, Top(stack).y)

\* C14: the enumeration takes every cost-optimal incoming edge of a cell,
\* in the order match, substitution, up, left; every call that is not at
\* (0, 0) has such an edge, so every explored branch reaches (0, 0); every
\* completed path overwrites the stored one; and the alignment new returns
\* is the one of the single backtrace from (X, Y) that prefers left, then
\* up, then the diagonal.
C14_LastPathIsBacktrace ==
    /\ [](pc = "align" =>
            /\ \A k \in 1..(Len(stack) - 1) : CalledInOrder(k)
            /\ \A k \in DOMAIN stack :
                  \/ IsBase(stack[k].x, stack[k].y)
                  \/ SomeGuard(stack[k].x, stack[k].y))
    /\ [](Returned =>
            /\ slf.presented = Backtrace(FirstCall(presented, transcribed)[1]).p_aligned
            /\ slf.transcribed = Backtrace(FirstCall(presented, transcribed)[1]).t_aligned)
    /\ [][AtOptimalEdge => Len(stack') = Len(stack) + 1]_vars
    /\ [][AtCompletedPath =>
            /\ slf'.presented = Top(stack).p_aligned
            /\ slf'.transcribed = Top(stack).t_aligned]_vars

\* new has returned for a pair whose corner cell has a cost-optimal
\* diagonal, up and left edge, so that several paths were completed
C14_Witness ==
    /\ pc = "done"
    /\ SubstGuard(d, Len(presented), Len(transcribed))
    /\ UpGuard(d, Len(presented), Len(transcribed))
    /\ LeftGuard(d, Len(presented), Len(transcribed))
    /\ slf.presented[slf.len] = Null

IsCharacter(e) == ~is_null(e)

\* the symbols of a track with its Element::Null cells deleted
RECURSIVE DeleteGaps(_)
DeleteGaps(track) ==
    IF track = <<>> THEN <<>>
    ELSE IF is_null(Head(track)) THEN DeleteGaps(Tail(track))
    ELSE <<CharOf(Head(track))>> \o DeleteGaps(Tail(track))

\* the number of cells of a track that hold a symbol
Symbols(track) ==
    Cardinality({k \in DOMAIN track : IsCharacter(track[k])})

\* C15: deleting the Gap cells of the stored presented track yields the
\* presented string and deleting those of the stored transcribed track
\* yields the transcribed string; hence N(presented = Symbol) = |presented|
\* and N(transcribed = Symbol) = |transcribed|, and the denominator of the
\* omission, substitution and correct probability is nonzero whenever
\* presented is non-empty.
C15_DeletingGapsRestoresInputs ==
    Returned =>
        /\ DeleteGaps(slf.presented) = presented
        /\ DeleteGaps(slf.transcribed) = transcribed
        /\ n(slf, "PresentedNotNull") = Len(presented)
        /\ Symbols(slf.presented) = Len(presented)
        /\ Symbols(slf.transcribed) = Len(transcribed)
        /\ presented # <<>> => n(slf, "PresentedNotNull") # 0

\* new has returned an alignment with a gap in each track and a
\* substitution cell, for strings that differ
C15_Witness ==
    /\ pc = "done"
    /\ n(slf, "InsertionCell") > 0
    /\ n(slf, "OmissionCell") > 0
    /\ presented # transcribed
    /\ DeleteGaps(slf.transcribed) = transcribed

\* the number of cells of the stored alignment that are not a matched pair
Cost(s) ==
    n(s, "InsertionCell") + n(s, "OmissionCell") + n(s, "SubstitutionCell")

\* C16: the stored alignment has minimum cost: its insertion, omission and
\* substitution cells together number D[X][Y], and every other cell is a
\* matched pair.
C16_AlignmentCostIsMsd ==
    Returned =>
        /\ Cost(slf) = d[Len(presented)][Len(transcribed)]
        /\ Cost(slf) + n(slf, "CorrectCell") = slf.len

\* new has returned an alignment of cost 2 that holds a matched pair
C16_Witness ==
    /\ pc = "done"
    /\ d[Len(presented)][Len(transcribed)] = 2
    /\ Cost(slf) = 2
    /\ n(slf, "CorrectCell") > 0

====
